---- MODULE Spec2Model ----
(***************************************************************************)
(* Model of the FAQ bot's retrieval core: the corpus cache (src/src/cache.py) *)
(* under concurrent readers, invalidators, force-reloaders and the          *)
(* auto-refresh thread, the external corpus source (src/src/db.py) and the  *)
(* matching engine (src/src/match.py, src/src/utils/calc_score.py).         *)
(***************************************************************************)
EXTENDS Integers, Sequences, FiniteSets, TLC

(* ----------------------------- bounds ---------------------------------- *)
\* wall-clock readings (time.time()) range over StartClock..MaxClock
StartClock == 1
MaxClock == 2
\* number of mutations committed to the corpus source in one behaviour
MaxVer == 2
\* rows of a stored corpus the matcher is run against
MaxRows == 2
MaxTokens == 3

\* request-serving / admin threads that call the public cache API
Threads == {"t1", "t2"}
\* thread objects start_auto_refresh can create
Workers == {"w1", "w2"}
\* the thread object the first start_auto_refresh call creates
FirstWorker == "w1"

None == "None"

\* the scorer's 1.0 in fixed-point arithmetic (thousandths)
One == 1000

\* calc_score.py defaults, in thousandths
WEIGHT_COS == 650
WEIGHT_FUZZ == 350
PATTERN_BOOST == 120
EXACT_BONUS == 200
PREFIX_BONUS == 100
CATEGORY_BOOST == 150
SCORE_SCALE == 100

\* the values calc_score's module-level names have after import, keyed as the
\* weights argument of calculate_score keys them
DefaultWeights ==
  [weight_cos |-> WEIGHT_COS, weight_fuzz |-> WEIGHT_FUZZ,
   pattern_boost |-> PATTERN_BOOST, exact_bonus |-> EXACT_BONUS,
   prefix_bonus |-> PREFIX_BONUS, category_boost |-> CATEGORY_BOOST]

\* configured values of QACache.ttl; the last one exceeds every clock reading
TTLs == {0, MaxClock + 1}

(* ------------------------ the corpus source ---------------------------- *)
\* column values of the row an insert stores, of a row after its question was
\* updated, and of a row whose embedding column is NULL (the schema allows
\* it). Texts are transliterated: "rsum" is the variant the normalizer maps to
\* "alrsum"; an embedding column holds pickle.dumps(embed_vector(question_norm))
NewPayload ==
  [question |-> "rsum", question_norm |-> "alrsum", embedding |-> "blobA",
   answer |-> "A1", category |-> "FEES"]

EditedPayload ==
  [question |-> "almkan", question_norm |-> "almkan", embedding |-> "blobB",
   answer |-> "A2", category |-> None]

UnembeddedPayload ==
  [question |-> "kam", question_norm |-> "kam", embedding |-> None,
   answer |-> "A3", category |-> None]

\* a row whose question scores as EditedPayload's does against "alrsum"
TiedPayload ==
  [question |-> "almktb", question_norm |-> "almktb", embedding |-> "blobC",
   answer |-> "A4", category |-> None]

\* a row whose stored embedding is an array of length zero
ZeroLengthPayload ==
  [question |-> "dfe", question_norm |-> "dfe", embedding |-> "blobEmpty",
   answer |-> "A5", category |-> "FEES"]

\* rows whose embedding blob does not unpickle, or unpickles to a vector of
\* another dimension than the model's
MalformedPayloads ==
  {[question |-> "kam", question_norm |-> "kam", embedding |-> "blobBad",
    answer |-> "A6", category |-> None],
   [question |-> "ser", question_norm |-> "ser", embedding |-> "blobLong",
    answer |-> "A7", category |-> None]}

Payloads == {NewPayload, EditedPayload}

\* one row of table qa (db.py SCHEMA_QA); id is the AUTOINCREMENT key
MkRow(i, p) ==
  [id |-> i, question |-> p.question, question_norm |-> p.question_norm,
   embedding |-> p.embedding, answer |-> p.answer, category |-> p.category]

\* "r[category] or ''": SQL NULL (None) and '' both become ''
CategoryOrEmpty(c) == IF c = None \/ c = "" THEN "" ELSE c

\* the dict _load_from_db appends for one fetched row
QaDict(r) ==
  [id |-> r.id, question |-> r.question, question_norm |-> r.question_norm,
   embedding |-> r.embedding, answer |-> r.answer,
   category |-> CategoryOrEmpty(r.category)]

\* _load_from_db on success: one SELECT ... ORDER BY id ASC, one dict per row
LoadFromDb(rows) == [i \in 1..Len(rows) |-> QaDict(rows[i])]

\* a reload that extends the existing list instead of replacing it
ExtendInPlace(old, new) == old \o new

\* "self._qas = self._load_from_db()": the attribute is rebound to the new list
Publish(old, new) == new

\* "return list(self._qas)": a fresh list with the same entries
ListCopy(l) == l

\* an except clause that drops the snapshot
ClearedOnError(old) == <<>>

\* what a raising loader leaves in self._qas: the assignment never happens
\* ("keep old cache in case of DB error")
StaleOnError(old) == old

\* a reload that stamps the time before it calls the loader
StampedBeforeLoad(stamp, t0) == t0

\* what a raising loader leaves in self._last_loaded: the timestamp is
\* assigned after the load, so the exception skips it (t0 is the clock
\* reading the assignment would have stored)
FailedStamp(stamp, t0) == stamp

RemoveAt(s, i) == SubSeq(s, 1, i - 1) \o SubSeq(s, i + 1, Len(s))

(* ------------------------------ state ---------------------------------- *)
VARIABLES
  db,           \* corpus source: [rows, nextId, ver, variants]
  clock,        \* current reading of time.time()
  ttl,          \* QACache.ttl
  lock,         \* holder of QACache._lock, or None
  last_loaded,  \* QACache._last_loaded
  qas,          \* QACache._qas
  stop_event,   \* QACache._stop_event flag
  auto_thread,  \* QACache._auto_thread: a thread object or None
  pc,           \* position of each caller thread
  now,          \* local "now" of a get_qas call in progress
  joining,      \* thread object a stop_auto_refresh call is joining
  wpc,          \* position of each auto-refresh thread object
  cur,          \* per caller: bookkeeping of its call in progress
  last,         \* outcome of the cache operation the last step completed
  hist,         \* history of the cache as a whole
  module_weights, \* calc_score's module-level WEIGHT_COS, WEIGHT_FUZZ,
                \* PATTERN_BOOST, EXACT_BONUS, PREFIX_BONUS, CATEGORY_BOOST
  call          \* the arguments of the call to a pure function under study

vars == <<db, clock, ttl, lock, last_loaded, qas, stop_event, auto_thread,
          pc, now, joining, wpc, cur, last, hist, module_weights,
          call>>

\* bookkeeping of a call in progress: the source version it has to reflect
\* and the number of loader calls it has made
NoCur == [need |-> 0, calls |-> 0]

\* outcome of the operation completed by the step that led to the current
\* state (NoLast when that step completed none): which one, whose, how it ended
\* ("returned" or "raised"), what get_qas returned and the source version of that list, the
\* number of loader calls, how the load ended, the version it had to reflect
\* and the clock reading it used; for find_best_match the query, the snapshot
\* it was given (ret), its result (<<>> for None, else <<MatchResult>>), the
\* number of embed_vector calls it made and the entries (positions) it handed
\* to calculate_score; for the other pure functions the arguments and the
\* outcome
NoLast == [op |-> None, by |-> None, status |-> None, ret |-> <<>>,
           retVer |-> 0, calls |-> 0, load |-> None, need |-> 0, at |-> 0,
           text |-> "", best |-> <<>>, args |-> <<>>, out |-> <<>>,
           embeds |-> 0, scored |-> {}]

\* history: last successfully loaded corpus and the version of the source it
\* was read from, who loaded it, whether an invalidate came after it, whether
\* any non-empty corpus was ever loaded, and the source version the next
\* get_qas call has to reflect (set by a returned invalidate)
NoHist == [lastGood |-> <<>>, lastVer |-> 0, lastBy |-> None,
           sinceLoad |-> FALSE, hadNonEmpty |-> FALSE, mustSee |-> 0,
           stopped |-> {}]

Loaded(h, new, ver, by) ==
  [h EXCEPT !.lastGood = new, !.lastVer = ver, !.lastBy = by,
            !.sinceLoad = TRUE, !.hadNonEmpty = @ \/ new # <<>>]

\* QACache.__init__ over corpus source d, all callers idle
InitOver(d) ==
  /\ db = d
  /\ clock = StartClock
  /\ ttl \in TTLs
  /\ lock = None
  /\ last_loaded = 0
  /\ qas = <<>>
  /\ stop_event = FALSE
  /\ pc = [t \in Threads |-> "idle"]
  /\ now = [t \in Threads |-> 0]
  /\ joining = [t \in Threads |-> None]
  /\ cur = [t \in Threads |-> NoCur]
  /\ last = NoLast
  /\ hist = NoHist
  /\ module_weights = DefaultWeights

\* QACache.__init__ on an empty corpus source
InitCache ==
  InitOver([rows |-> <<>>, nextId |-> 1, ver |-> 0, variants |-> {}])

\* no call to a pure function is under study
NoCall == [fn |-> None]

\* after construction: no auto-refresh thread exists
Init ==
  /\ InitCache
  /\ call = NoCall
  /\ auto_thread = None
  /\ wpc = [w \in Workers |-> "free"]

\* after bot.main() with QA_CACHE_AUTO_REFRESH on: start_auto_refresh has run
\* once and its thread is about to enter the loop
InitRefreshing ==
  /\ InitCache
  /\ call = NoCall
  /\ auto_thread = FirstWorker
  /\ wpc = [w \in Workers |-> IF w = FirstWorker THEN "loop" ELSE "free"]

\* a lock that does not exclude: every "with self._lock" enters at once
Reentered(holder) == TRUE

\* "with self._lock": threading.Lock is entered only while nobody holds it
LockFree(holder) == holder = None

\* a with block that keeps the lock when its body raises
HeldOnError(holder) == holder

\* "with self._lock": leaving the block by an exception releases the lock
ReleasedOnError(holder) == None

(* ------------------- environment: clock and mutations ------------------ *)
Tick ==
  /\ clock < MaxClock
  /\ clock' = clock + 1
  /\ UNCHANGED <<db, ttl, lock, last_loaded, qas, stop_event, auto_thread,
                 pc, now, joining, wpc, cur, hist>>
  /\ last' = NoLast
  /\ UNCHANGED <<module_weights, call>>

\* UNIQUE INDEX uq_qa_question_norm: no row other than row i (0 for none)
\* has this question_norm
UniqueNorm(rows, i, norm) ==
  \A j \in 1..Len(rows) : j # i => rows[j].question_norm # norm

\* db.add_qna: INSERT + commit
DbInsert ==
  /\ db.ver < MaxVer
  /\ UniqueNorm(db.rows, 0, NewPayload.question_norm)
  /\ db' = [db EXCEPT !.rows = Append(db.rows, MkRow(db.nextId, NewPayload)),
                      !.nextId = db.nextId + 1, !.ver = db.ver + 1]
  /\ UNCHANGED <<clock, ttl, lock, last_loaded, qas, stop_event, auto_thread,
                 pc, now, joining, wpc, cur, hist>>
  /\ last' = NoLast
  /\ UNCHANGED <<module_weights, call>>

\* db.update_qna: UPDATE ... WHERE id = ? + commit
DbUpdate ==
  /\ db.ver < MaxVer
  /\ \E i \in 1..Len(db.rows), p \in Payloads :
       /\ MkRow(db.rows[i].id, p) # db.rows[i]
       /\ UniqueNorm(db.rows, i, p.question_norm)
       /\ db' = [db EXCEPT !.rows[i] = MkRow(db.rows[i].id, p),
                           !.ver = db.ver + 1]
  /\ UNCHANGED <<clock, ttl, lock, last_loaded, qas, stop_event, auto_thread,
                 pc, now, joining, wpc, cur, hist>>
  /\ last' = NoLast
  /\ UNCHANGED <<module_weights, call>>

\* db.delete_qna: DELETE ... WHERE id = ? + commit
DbDelete ==
  /\ db.ver < MaxVer
  /\ \E i \in 1..Len(db.rows) :
       db' = [db EXCEPT !.rows = RemoveAt(db.rows, i), !.ver = db.ver + 1]
  /\ UNCHANGED <<clock, ttl, lock, last_loaded, qas, stop_event, auto_thread,
                 pc, now, joining, wpc, cur, hist>>
  /\ last' = NoLast
  /\ UNCHANGED <<module_weights, call>>

(* ------------------------------ get_qas -------------------------------- *)
\* a staleness test that already fires when the age equals the ttl
IsStaleAtTtl(q, t0, stamp, limit) == q = <<>> \/ (t0 - stamp) >= limit

\* "if not self._qas or (now - self._last_loaded) > self.ttl"
IsStale(q, t0, stamp, limit) == q = <<>> \/ (t0 - stamp) > limit

\* what the except clause of get_qas does with a loader exception: it logs,
\* and the call goes on to its return statement
GetQasOnError == "returned"

\* a caller invokes get_qas and reaches "with self._lock"
CallGetQas(t) ==
  /\ pc[t] = "idle"
  /\ pc' = [pc EXCEPT ![t] = "get_wait"]
  /\ cur' = [cur EXCEPT ![t] = [NoCur EXCEPT !.need = hist.mustSee]]
  /\ hist' = [hist EXCEPT !.mustSee = 0]
  /\ UNCHANGED <<db, clock, ttl, lock, last_loaded, qas, stop_event,
                 auto_thread, now, joining, wpc>>
  /\ last' = NoLast
  /\ UNCHANGED <<module_weights, call>>

\* lock acquired, now read, staleness checked; a fresh snapshot is returned
\* at once, a stale one starts the loader with the lock held
GetQasEnter(t) ==
  /\ pc[t] = "get_wait"
  /\ LockFree(lock)
  /\ IF IsStale(qas, clock, last_loaded, ttl)
       THEN /\ lock' = t
            /\ now' = [now EXCEPT ![t] = clock]
            /\ pc' = [pc EXCEPT ![t] = "get_load"]
            /\ cur' = [cur EXCEPT ![t].calls = @ + 1]
            /\ last' = NoLast
       ELSE /\ lock' = None
            /\ now' = now
            /\ pc' = [pc EXCEPT ![t] = "idle"]
            /\ cur' = [cur EXCEPT ![t] = NoCur]
            /\ last' = [NoLast EXCEPT !.op = "get_qas", !.by = t,
                          !.status = "returned", !.ret = ListCopy(qas),
                          !.retVer = hist.lastVer, !.calls = cur[t].calls,
                          !.load = None, !.need = cur[t].need, !.at = clock]
  /\ UNCHANGED <<db, clock, ttl, last_loaded, qas, stop_event, auto_thread,
                 joining, wpc, hist>>
  /\ UNCHANGED <<module_weights, call>>

\* the loader returned: snapshot and timestamp published, copy returned
GetQasLoadOk(t) ==
  /\ pc[t] = "get_load"
  /\ LET loaded == LoadFromDb(db.rows)
         new == Publish(qas, loaded) IN
       /\ qas' = new
       /\ last_loaded' = now[t]
       /\ last' = [NoLast EXCEPT !.op = "get_qas", !.by = t,
                     !.status = "returned", !.ret = ListCopy(new),
                     !.retVer = db.ver, !.calls = cur[t].calls,
                     !.load = "ok", !.need = cur[t].need, !.at = now[t]]
       /\ hist' = Loaded(hist, loaded, db.ver, "get_qas")
  /\ lock' = None
  /\ now' = [now EXCEPT ![t] = 0]
  /\ pc' = [pc EXCEPT ![t] = "idle"]
  /\ cur' = [cur EXCEPT ![t] = NoCur]
  /\ UNCHANGED <<db, clock, ttl, stop_event, auto_thread, joining, wpc>>
  /\ UNCHANGED <<module_weights, call>>

\* the loader raised: logged, old snapshot returned
GetQasLoadFail(t) ==
  /\ pc[t] = "get_load"
  /\ qas' = StaleOnError(qas)
  /\ last_loaded' = FailedStamp(last_loaded, now[t])
  /\ last' = [NoLast EXCEPT !.op = "get_qas", !.by = t,
                !.status = GetQasOnError,
                !.ret = IF GetQasOnError = "returned" THEN ListCopy(qas')
                                                       ELSE <<>>,
                !.retVer = hist.lastVer, !.calls = cur[t].calls,
                !.load = "fail", !.need = cur[t].need, !.at = now[t]]
  /\ lock' = ReleasedOnError(lock)
  /\ now' = [now EXCEPT ![t] = 0]
  /\ pc' = [pc EXCEPT ![t] = "idle"]
  /\ cur' = [cur EXCEPT ![t] = NoCur]
  /\ UNCHANGED <<db, clock, ttl, stop_event, auto_thread, joining, wpc,
                 hist>>
  /\ UNCHANGED <<module_weights, call>>

(* ----------------------------- invalidate ------------------------------ *)
\* an invalidate that leaves the timestamp alone
KeptStamp(stamp) == stamp

\* "self._last_loaded = 0"
InvalidatedStamp(stamp) == 0

\* a caller invokes invalidate and reaches "with self._lock"; need records
\* the version of the source at the moment of the call
CallInvalidate(t) ==
  /\ pc[t] = "idle"
  /\ pc' = [pc EXCEPT ![t] = "inv_wait"]
  /\ cur' = [cur EXCEPT ![t] = [NoCur EXCEPT !.need = db.ver]]
  /\ UNCHANGED <<db, clock, ttl, lock, last_loaded, qas, stop_event,
                 auto_thread, now, joining, wpc, hist>>
  /\ last' = NoLast
  /\ UNCHANGED <<module_weights, call>>

\* lock acquired, timestamp zeroed, lock released
Invalidate(t) ==
  /\ pc[t] = "inv_wait"
  /\ LockFree(lock)
  /\ last_loaded' = InvalidatedStamp(last_loaded)
  /\ pc' = [pc EXCEPT ![t] = "idle"]
  /\ cur' = [cur EXCEPT ![t] = NoCur]
  /\ last' = [NoLast EXCEPT !.op = "invalidate", !.by = t,
                            !.status = "returned",
                            !.need = cur[t].need, !.at = clock]
  /\ hist' = [hist EXCEPT !.sinceLoad = FALSE,
                          !.mustSee = IF cur[t].need > @ THEN cur[t].need
                                                          ELSE @]
  /\ UNCHANGED <<db, clock, ttl, lock, qas, stop_event, auto_thread, now,
                 joining, wpc>>
  /\ UNCHANGED <<module_weights, call>>

(* ---------------------------- force_reload ----------------------------- *)
\* what the except clause of force_reload does with a loader exception
ForceReloadOnError == "returned"

\* a force_reload that reloads only a stale snapshot, like get_qas
ForceReloadIfStale(q, t0, stamp, limit) == IsStale(q, t0, stamp, limit)

\* whether force_reload goes on to call the loader: unconditionally
ForceReloadLoads(q, t0, stamp, limit) == TRUE

CallForceReload(t) ==
  /\ pc[t] = "idle"
  /\ pc' = [pc EXCEPT ![t] = "fr_wait"]
  /\ UNCHANGED <<db, clock, ttl, lock, last_loaded, qas, stop_event,
                 auto_thread, now, joining, wpc, cur, hist>>
  /\ last' = NoLast
  /\ UNCHANGED <<module_weights, call>>

\* lock acquired, loader started with the lock held
ForceReloadEnter(t) ==
  /\ pc[t] = "fr_wait"
  /\ LockFree(lock)
  /\ IF ForceReloadLoads(qas, clock, last_loaded, ttl)
       THEN /\ lock' = t
            /\ pc' = [pc EXCEPT ![t] = "fr_load"]
            /\ cur' = [cur EXCEPT ![t].calls = @ + 1]
            /\ last' = NoLast
       ELSE /\ lock' = None
            /\ pc' = [pc EXCEPT ![t] = "idle"]
            /\ cur' = [cur EXCEPT ![t] = NoCur]
            /\ last' = [NoLast EXCEPT !.op = "force_reload", !.by = t,
                                      !.status = "returned",
                                      !.calls = cur[t].calls, !.at = clock]
  /\ UNCHANGED <<db, clock, ttl, last_loaded, qas, stop_event, auto_thread,
                 now, joining, wpc, hist>>
  /\ UNCHANGED <<module_weights, call>>

\* the loader returned: snapshot published, timestamp read after the load
ForceReloadOk(t) ==
  /\ pc[t] = "fr_load"
  /\ LET loaded == LoadFromDb(db.rows)
         new == Publish(qas, loaded) IN
       /\ qas' = new
       /\ last_loaded' = clock
       /\ last' = [NoLast EXCEPT !.op = "force_reload", !.by = t,
                                 !.status = "returned",
                                 !.calls = cur[t].calls, !.load = "ok",
                                 !.at = clock]
       /\ hist' = Loaded(hist, loaded, db.ver, "force_reload")
  /\ lock' = None
  /\ pc' = [pc EXCEPT ![t] = "idle"]
  /\ cur' = [cur EXCEPT ![t] = NoCur]
  /\ UNCHANGED <<db, clock, ttl, stop_event, auto_thread, now, joining, wpc>>
  /\ UNCHANGED <<module_weights, call>>

\* the loader raised: logged, old snapshot kept
ForceReloadFail(t) ==
  /\ pc[t] = "fr_load"
  /\ last' = [NoLast EXCEPT !.op = "force_reload", !.by = t,
                            !.status = ForceReloadOnError,
                            !.calls = cur[t].calls, !.load = "fail",
                            !.at = clock]
  /\ qas' = qas
  /\ last_loaded' = FailedStamp(last_loaded, clock)
  /\ lock' = ReleasedOnError(lock)
  /\ pc' = [pc EXCEPT ![t] = "idle"]
  /\ cur' = [cur EXCEPT ![t] = NoCur]
  /\ UNCHANGED <<db, clock, ttl, stop_event, auto_thread, now, joining, wpc,
                 hist>>
  /\ UNCHANGED <<module_weights, call>>

(* ------------------------ auto-refresh thread -------------------------- *)
IsAlive(w) == wpc[w] \notin {"free", "dead"}

AliveWorkers == {w \in Workers : IsAlive(w)}

\* a try block around the whole loop: the first failing tick ends the thread
WorkerDiesOnError == "dead"

\* where the thread goes when a tick's reload raised: the except clause is
\* inside the while loop, so it goes back to the wait
WorkerOnError == "loop"

\* "while not self._stop_event.wait(interval)": the flag is already set, the
\* loop ends and the thread exits; otherwise the thread blocks in wait
WorkerWait(w) ==
  /\ wpc[w] = "loop"
  /\ wpc' = [wpc EXCEPT ![w] = IF stop_event THEN "dead" ELSE "wait"]
  /\ UNCHANGED <<db, clock, ttl, lock, last_loaded, qas, stop_event,
                 auto_thread, pc, now, joining, cur, hist>>
  /\ last' = NoLast
  /\ UNCHANGED <<module_weights, call>>

\* the wait timed out with the flag never set: the tick begins and the
\* thread reaches "with self._lock"
WorkerTimeout(w) ==
  /\ wpc[w] = "wait"
  /\ wpc' = [wpc EXCEPT ![w] = "acquire"]
  /\ UNCHANGED <<db, clock, ttl, lock, last_loaded, qas, stop_event,
                 auto_thread, pc, now, joining, cur, hist>>
  /\ last' = NoLast
  /\ UNCHANGED <<module_weights, call>>

\* a thread notified by set() while waiting leaves the loop and exits
WorkerExit(w) ==
  /\ wpc[w] = "woken"
  /\ wpc' = [wpc EXCEPT ![w] = "dead"]
  /\ UNCHANGED <<db, clock, ttl, lock, last_loaded, qas, stop_event,
                 auto_thread, pc, now, joining, cur, hist>>
  /\ last' = NoLast
  /\ UNCHANGED <<module_weights, call>>

\* lock acquired, loader started with the lock held
WorkerAcquire(w) ==
  /\ wpc[w] = "acquire"
  /\ LockFree(lock)
  /\ lock' = w
  /\ wpc' = [wpc EXCEPT ![w] = "load"]
  /\ UNCHANGED <<db, clock, ttl, last_loaded, qas, stop_event, auto_thread,
                 pc, now, joining, cur, hist>>
  /\ last' = NoLast
  /\ UNCHANGED <<module_weights, call>>

\* the loader returned: snapshot published, timestamp read after the load
WorkerLoadOk(w) ==
  /\ wpc[w] = "load"
  /\ LET loaded == LoadFromDb(db.rows)
         new == Publish(qas, loaded) IN
       /\ qas' = new
       /\ last_loaded' = clock
       /\ last' = [NoLast EXCEPT !.op = "auto_refresh", !.by = w,
                                 !.status = "returned", !.calls = 1,
                                 !.load = "ok", !.at = clock]
       /\ hist' = Loaded(hist, loaded, db.ver, "auto_refresh")
  /\ lock' = None
  /\ wpc' = [wpc EXCEPT ![w] = "loop"]
  /\ UNCHANGED <<db, clock, ttl, stop_event, auto_thread, pc, now, joining,
                 cur>>
  /\ UNCHANGED <<module_weights, call>>

\* the loader raised: the with block releases the lock, the error is logged
WorkerLoadFail(w) ==
  /\ wpc[w] = "load"
  /\ qas' = qas
  /\ last_loaded' = FailedStamp(last_loaded, clock)
  /\ last' = [NoLast EXCEPT !.op = "auto_refresh", !.by = w,
                            !.status = IF WorkerOnError = "loop"
                                         THEN "returned" ELSE "raised",
                            !.calls = 1, !.load = "fail", !.at = clock]
  /\ lock' = ReleasedOnError(lock)
  /\ wpc' = [wpc EXCEPT ![w] = WorkerOnError]
  /\ UNCHANGED <<db, clock, ttl, stop_event, auto_thread, pc, now, joining,
                 cur, hist>>
  /\ UNCHANGED <<module_weights, call>>

(* ------------------ start_auto_refresh / stop_auto_refresh ------------- *)
\* "if self._auto_thread and self._auto_thread.is_alive(): return"
StartCheck(t) ==
  /\ pc[t] = "idle"
  /\ pc' = [pc EXCEPT ![t] = IF auto_thread # None /\ IsAlive(auto_thread)
                               THEN "idle" ELSE "start_clear"]
  /\ UNCHANGED <<db, clock, ttl, lock, last_loaded, qas, stop_event,
                 auto_thread, now, joining, wpc, cur, hist>>
  /\ last' = NoLast
  /\ UNCHANGED <<module_weights, call>>

\* "self._stop_event.clear()"
StartClear(t) ==
  /\ pc[t] = "start_clear"
  /\ stop_event' = FALSE
  /\ pc' = [pc EXCEPT ![t] = "start_spawn"]
  /\ UNCHANGED <<db, clock, ttl, lock, last_loaded, qas, auto_thread, now,
                 joining, wpc, cur, hist>>
  /\ last' = NoLast
  /\ UNCHANGED <<module_weights, call>>

\* a thread object that is not running and that nothing refers to
Unused(w) ==
  /\ ~IsAlive(w)
  /\ auto_thread # w
  /\ \A t \in Threads : joining[t] # w

\* "self._auto_thread = threading.Thread(...); self._auto_thread.start()"
StartSpawn(t) ==
  /\ pc[t] = "start_spawn"
  /\ \E w \in Workers :
       /\ Unused(w)
       /\ auto_thread' = w
       /\ wpc' = [wpc EXCEPT ![w] = "loop"]
       /\ hist' = [hist EXCEPT !.stopped = @ \ {w}]
  /\ pc' = [pc EXCEPT ![t] = "idle"]
  /\ UNCHANGED <<db, clock, ttl, lock, last_loaded, qas, stop_event, now,
                 joining, cur>>
  /\ last' = NoLast
  /\ UNCHANGED <<module_weights, call>>

\* "self._stop_event.set()": the flag is set and every thread blocked in
\* wait is notified; then "if self._auto_thread:" reads the attribute
StopSet(t) ==
  /\ pc[t] = "idle"
  /\ stop_event' = TRUE
  /\ wpc' = [w \in Workers |-> IF wpc[w] = "wait" THEN "woken" ELSE wpc[w]]
  /\ pc' = [pc EXCEPT ![t] = "stop_read"]
  /\ hist' = [hist EXCEPT !.stopped = @ \cup ({auto_thread} \cap AliveWorkers)]
  /\ UNCHANGED <<db, clock, ttl, lock, last_loaded, qas, auto_thread, now,
                 joining, cur>>
  /\ last' = NoLast
  /\ UNCHANGED <<module_weights, call>>

\* "if self._auto_thread: self._auto_thread.join(timeout=2)" begins
StopRead(t) ==
  /\ pc[t] = "stop_read"
  /\ IF auto_thread = None
       THEN /\ pc' = [pc EXCEPT ![t] = "idle"]
            /\ joining' = joining
       ELSE /\ pc' = [pc EXCEPT ![t] = "stop_join"]
            /\ joining' = [joining EXCEPT ![t] = auto_thread]
  /\ UNCHANGED <<db, clock, ttl, lock, last_loaded, qas, stop_event,
                 auto_thread, now, wpc, cur, hist>>
  /\ last' = NoLast
  /\ UNCHANGED <<module_weights, call>>

\* a thread that can outlast the two seconds of the join: it is inside a
\* tick, waiting for the lock or for the loader
InsideTick(w) == wpc[w] \in {"acquire", "load"}

\* join returns: the thread has ended, or the timeout expired first
StopJoin(t) ==
  /\ pc[t] = "stop_join"
  /\ \/ ~IsAlive(joining[t])
     \/ InsideTick(joining[t])
  /\ pc' = [pc EXCEPT ![t] = "stop_clear"]
  /\ joining' = [joining EXCEPT ![t] = None]
  /\ UNCHANGED <<db, clock, ttl, lock, last_loaded, qas, stop_event,
                 auto_thread, now, wpc, cur, hist>>
  /\ last' = NoLast
  /\ UNCHANGED <<module_weights, call>>

\* "self._auto_thread = None"
StopClear(t) ==
  /\ pc[t] = "stop_clear"
  /\ auto_thread' = None
  /\ pc' = [pc EXCEPT ![t] = "idle"]
  /\ UNCHANGED <<db, clock, ttl, lock, last_loaded, qas, stop_event, now,
                 joining, wpc, cur, hist>>
  /\ last' = NoLast
  /\ UNCHANGED <<module_weights, call>>

(* --------------------------- matching engine --------------------------- *)
Min(a, b) == IF a <= b THEN a ELSE b
Max(a, b) == IF a >= b THEN a ELSE b

\* dict.get(key): <<value>> when the key is present, <<>> (None) when absent
Get(d, k) == IF k \in DOMAIN d THEN <<d[k]>> ELSE <<>>

\* dict.get(key, default) and dict.get(key) for string-valued keys
GetOr(d, k, default) == IF k \in DOMAIN d THEN d[k] ELSE default

\* the words in use, transliterated ("T" is the ta marbuta, "e" the ain):
\* "rsum" fees and "alrsum" the fees, "almkan" the place, "almktb" the office,
\* "kam" how much, "dwrt" course and "dwrh" its folded spelling, "altrbyt"
\* the one-word standard term for military education and "altrbyh" its
\* folded spelling, "fy" in, "hl" the question particle, "w" and, "dfe"
\* payment, "ser" price
Words ==
  {"rsum", "alrsum", "almkan", "almktb", "kam", "dwrt", "dwrh", "altrbyt",
   "altrbyh", "fy", "hl", "w", "dfe", "ser"}

\* the one-word texts users send and admins store ("?" is punctuation only)
Texts == {"", "?", "rsum", "alrsum", "almkan", "almktb", "kam"}

\* the characters of a text
Chars ==
  [t \in Texts \cup Words |->
     CASE t = "rsum" -> <<"r", "s", "w", "m">>
       [] t = "alrsum" -> <<"a", "l", "r", "s", "w", "m">>
       [] t = "almkan" -> <<"a", "l", "m", "k", "a", "n">>
       [] t = "almktb" -> <<"a", "l", "m", "k", "t", "b">>
       [] t = "kam" -> <<"k", "m">>
       [] t = "dwrt" -> <<"d", "w", "r", "T">>
       [] t = "dwrh" -> <<"d", "w", "r", "h">>
       [] t = "altrbyt" -> <<"a", "l", "t", "r", "b", "y", "T",
                             "a", "l", "e", "s", "k", "r", "y", "T">>
       [] t = "altrbyh" -> <<"a", "l", "t", "r", "b", "y", "h",
                             "a", "l", "e", "s", "k", "r", "y", "h">>
       [] t = "fy" -> <<"f", "y">>
       [] t = "hl" -> <<"h", "l">>
       [] t = "w" -> <<"w">>
       [] t = "dfe" -> <<"d", "f", "e">>
       [] t = "ser" -> <<"s", "e", "r">>
       [] t = "?" -> <<"?">>
       [] OTHER -> <<>>]

\* the word a character sequence spells
WordOf(cs) == CHOOSE w \in Words : Chars[w] = cs

\* a str is a sequence of items: words, punctuation marks and extra blanks
\* (between two neighbouring words there is one blank); a str of words only
\* is the words joined by single blanks
\* ArabicNormalizer._punctuation and whitespace, on the characters in use
Punctuation == {"?"}
Whitespace == {" "}

\* ArabicNormalizer._char_map, on the characters in use
CharMap(c) == IF c = "T" THEN "h" ELSE c

\* s.translate(self._char_map), word by word
Translate(w) == WordOf([i \in 1..Len(Chars[w]) |-> CharMap(Chars[w][i])])

\* ArabicNormalizer._syn_map, on the words in use: variant -> standard term
SynMap == [rsum |-> "alrsum", dwrh |-> "altrbyt"]

\* the synonym patterns are anchored at word boundaries
Synonym(w) == IF w \in DOMAIN SynMap THEN SynMap[w] ELSE w

\* ArabicNormalizer._drop_tokens and _question_words, on the words in use
DropTokens == {"w", "fy", "hl"}
QuestionWords == {"kam", "hl"}

\* the words of a str once punctuation has become blanks
Tokenize(items) ==
  SelectSeq(items, LAMBDA c : c \notin Punctuation \cup Whitespace)

\* _remove_duplicate_words: consecutive duplicates collapse
RECURSIVE RemoveDuplicateWords(_)
RemoveDuplicateWords(ws) ==
  IF Len(ws) <= 1 THEN ws
  ELSE IF ws[1] = ws[2] THEN RemoveDuplicateWords(Tail(ws))
  ELSE <<ws[1]>> \o RemoveDuplicateWords(Tail(ws))

\* normalize from "s = text.strip().lower()" on, in the order of the source:
\* punctuation to blanks, character map, synonyms, consecutive duplicates,
\* stop words (question words stay), one-character tokens. The stages for
\* URLs, emojis, diacritics, tatweel, the lil- prefix, digits and polite
\* phrases change none of the words in use.
NormalizeStr(items) ==
  LET words == Tokenize(items)
      folded == [i \in 1..Len(words) |-> Translate(words[i])]
      mapped == [i \in 1..Len(folded) |-> Synonym(folded[i])]
      deduped == RemoveDuplicateWords(mapped)
      kept == SelectSeq(deduped,
                        LAMBDA w : w \notin DropTokens \/ w \in QuestionWords)
  IN SelectSeq(kept, LAMBDA w : Len(Chars[w]) > 1 \/ w \in QuestionWords)

\* a Python value passed as text: a str (its items) or something else (None)
Str(items) == [str |-> TRUE, items |-> items]
NotAStr == [str |-> FALSE, items |-> <<>>]

\* a guard that tests text.strip() without testing the type first
BlankStr(x) == x.str /\ \A i \in 1..Len(x.items) : x.items[i] \in Whitespace

\* "not isinstance(text, str) or not text.strip()"
BlankOrNotStr(x) ==
  ~x.str \/ \A i \in 1..Len(x.items) : x.items[i] \in Whitespace

\* ArabicNormalizer.normalize (normalize_ar is its alias): how the call ends
\* and the str it returns, as its words; str methods raise on a non-str
normalize(x) ==
  IF BlankOrNotStr(x) THEN [status |-> "returned", value |-> <<>>]
  ELSE IF ~x.str THEN [status |-> "raised", value |-> <<>>]
  ELSE [status |-> "returned", value |-> NormalizeStr(x.items)]

\* one-word texts as strs and back
Split(text) == IF text = "" THEN <<>> ELSE <<text>>
Join(ws) == IF ws = <<>> THEN "" ELSE ws[1]

\* normalize_ar on the one-word texts of the matcher
normalize_ar(text) == Join(normalize(Str(Split(text))).value)

\* embed_vector: the vector the sentence-transformer model returns for a
\* normalized text (a fixed function of the text)
embed_vector(norm) ==
  CASE norm = "alrsum" -> <<5, 0>>
    [] norm = "almkan" -> <<0, 5>>
    [] norm = "almktb" -> <<0, 0 - 5>>
    [] norm = "kam" -> <<3, 4>>
    [] OTHER -> <<4, 3>>

\* the byte strings stored in qa.embedding: blob -> the array it unpickles to
\* (blobEmpty is the pickle of a zero-length array)
Blobs ==
  [blobA |-> embed_vector("alrsum"), blobB |-> embed_vector("almkan"),
   blobC |-> embed_vector("almktb"), blobEmpty |-> <<>>,
   blobLong |-> <<5, 0, 0>>]

\* pickle.loads
PickleLoads(blob) == Blobs[blob]

\* pickle.loads raises on bytes that are not a pickle
PickleRaises(blob) == blob # None /\ blob \notin DOMAIN Blobs

\* load_embedding: None (key absent or SQL NULL) gives np.array([]); the
\* stored values are bytes, never str
load_embedding(blob) == IF blob = None THEN <<>> ELSE PickleLoads(blob)

\* a test that lets every entry through
AnyEmbedding(emb) == TRUE

\* "emb is not None and len(emb) > 0" (load_embedding never returns None)
Usable(emb) == Len(emb) > 0

RECURSIVE Dot(_, _)
Dot(a, b) == IF a = <<>> THEN 0 ELSE Head(a) * Head(b) + Dot(Tail(a), Tail(b))

\* np.linalg.norm
ISqrt(n) == CHOOSE r \in 0..n : r * r <= n /\ (r + 1) * (r + 1) > n
Norm(a) == ISqrt(Dot(a, a))

\* _cos, in thousandths; np.dot raises on arrays of different length
CosRaises(a, b) == Len(a) # Len(b)
Cos(a, b) ==
  LET denom == Norm(a) * Norm(b) IN
    IF denom = 0 THEN 0 ELSE (Dot(a, b) * One) \div denom

\* rapidfuzz's indel similarity of two character sequences, in thousandths
RECURSIVE Lcs(_, _)
Lcs(a, b) ==
  IF a = <<>> \/ b = <<>> THEN 0
  ELSE IF Head(a) = Head(b) THEN 1 + Lcs(Tail(a), Tail(b))
  ELSE Max(Lcs(Tail(a), b), Lcs(a, Tail(b)))

\* fuzz.token_set_ratio / 100.0 on one-token texts: 0 when either is empty,
\* 1 when the token sets are equal, else the ratio of the two differing tokens
TokenSetRatio(a, b) ==
  IF a = "" \/ b = "" THEN 0
  ELSE IF a = b THEN One
  ELSE (2 * Lcs(Chars[a], Chars[b]) * One) \div (Len(Chars[a]) + Len(Chars[b]))

\* MIL_PATTERNS, on the texts in use, and pattern_matches (regex search)
MIL_PATTERNS == {"alrsum"}

Contains(s, p) ==
  \E i \in 0..(Len(s) - Len(p)) : SubSeq(s, i + 1, i + Len(p)) = p

pattern_matches(text_norm) ==
  \E p \in MIL_PATTERNS : Contains(Chars[text_norm], Chars[p])

\* str.startswith
StartsWith(s, p) == Len(p) <= Len(s) /\ SubSeq(s, 1, Len(p)) = p

\* the categories enumerated from the last to the first
ReversedOrder ==
  <<"GENERAL", "LOCATION", "FEES", "DELIVERIES", "ATTENDANCE", "REGISTRATION">>

\* CATEGORY_KEYWORDS in its enumeration order, on the words in use; a list
\* keeps the repetitions of the source (FEES names "dfe" and "ser" twice)
CategoryOrder ==
  <<"REGISTRATION", "ATTENDANCE", "DELIVERIES", "FEES", "LOCATION", "GENERAL">>

CATEGORY_KEYWORDS ==
  [REGISTRATION |-> <<>>, ATTENDANCE |-> <<>>, DELIVERIES |-> <<>>,
   FEES |-> <<"rsum", "dfe", "alrsum", "dfe", "ser", "ser">>,
   LOCATION |-> <<"almkan", "almktb">>, GENERAL |-> <<"hl">>]

\* patt.search(text): a pattern stands between blanks or the ends of the text
PatternFound(p, items) == \E i \in 1..Len(items) : items[i] = p

\* "for patt in patterns: if patt.search(text): score += 1"
CategoryScore(cat, items) ==
  Cardinality({k \in 1..Len(CATEGORY_KEYWORDS[cat]) :
                 PatternFound(CATEGORY_KEYWORDS[cat][k], items)})

\* "for cat, score in category_scores.items(): if score > best_score"
RECURSIVE BestCategory(_, _, _)
BestCategory(i, items, best) ==
  IF i > Len(CategoryOrder) THEN best
  ELSE LET s == CategoryScore(CategoryOrder[i], items) IN
         BestCategory(i + 1, items,
                      IF s > best.score
                        THEN [cat |-> CategoryOrder[i], score |-> s]
                        ELSE best)

\* a confidence without the cap
UncappedConfidence(best_score) == 500 + best_score * 100

\* "min(0.95, 0.5 + (best_score * 0.1))", in thousandths
Confidence(best_score) == Min(950, 500 + best_score * 100)

\* predict_category(text, is_normalized=True), the call the repository makes,
\* on a str given as its items
predict_category(items) ==
  LET tokens == SelectSeq(items, LAMBDA c : c \notin Whitespace)
      b == BestCategory(1, items, [cat |-> None, score |-> 0]) IN
    IF items = <<>> \/ tokens = <<>> \/ b.score = 0
      THEN [cat |-> None, conf |-> 0]
      ELSE [cat |-> b.cat, conf |-> Confidence(b.score)]

\* the Category enum: member name |-> value (the Arabic display name)
Category ==
  [REGISTRATION |-> "altsjyl", ATTENDANCE |-> "alhdwr",
   DELIVERIES |-> "altslymat", FEES |-> "alrsum", LOCATION |-> "almkan",
   GENERAL |-> "eam"]

\* what the admin add and update flows store for the button chosen:
\* "Category[cat_name].value if cat_name in Category.__members__ else
\* Category.GENERAL.value"
category_value(cat_name) ==
  IF cat_name \in DOMAIN Category THEN Category[cat_name]
                                  ELSE Category["GENERAL"]

\* truth value of an optional string
Truthy(s) == s # None /\ s # ""

\* str.lower on category names
Lower(s) ==
  CASE s = "REGISTRATION" -> "registration" [] s = "ATTENDANCE" -> "attendance"
    [] s = "DELIVERIES" -> "deliveries" [] s = "FEES" -> "fees"
    [] s = "LOCATION" -> "location" [] s = "GENERAL" -> "general"
    [] OTHER -> s

\* no weights argument (None); an empty dict is as falsy
NoWeights == <<>>

\* weights dicts passed to calculate_score: a point of the grid search, and
\* a dict that sets one negative boost
GridPoint ==
  [weight_cos |-> 500, weight_fuzz |-> 500, pattern_boost |-> 0,
   exact_bonus |-> 0, prefix_bonus |-> 0]

NegativeBoost == [pattern_boost |-> 0 - 2 * One]

\* "if weights: WEIGHT_COS = float(weights.get("weight_cos", WEIGHT_COS)) ...":
\* the module-level names after a call with this weights argument
OverrideWeights(G, weights) ==
  [k \in DOMAIN G |-> IF k \in DOMAIN weights THEN weights[k] ELSE G[k]]

\* a final step that only scales
Unclamped(x) == x

\* "float(max(0.0, min(100.0, base * SCORE_SCALE)))", x being base * SCORE_SCALE
FinalPct(x) == Max(0, Min(100 * One, x))

\* calculate_score from its guard on, under the module-level values G; the
\* result is in thousandths of a percent point
ScoreUnder(G, user_embedding, qa_embedding, user_norm, qa_norm, user_category, user_category_conf, qa_category, exact, prefix) ==
  LET c == Cos(user_embedding, qa_embedding)
      c01 == (c + One) \div 2
      tf == TokenSetRatio(user_norm, qa_norm)
      weighted == (G.weight_cos * c01 + G.weight_fuzz * tf) \div One
      base0 == Max(0, Min(One, weighted))
      lo == Min(Len(Chars[user_norm]), Len(Chars[qa_norm]))
      hi == Max(Len(Chars[user_norm]), Len(Chars[qa_norm]))
      \* len_penalty = 1 - (1 - 2 * lo / hi) * 0.3 when lo / hi < 0.5
      base1 == IF user_norm # "" /\ qa_norm # "" /\ 2 * lo < hi
                 THEN (base0 * (7 * hi + 6 * lo)) \div (10 * hi)
                 ELSE base0
      base2 == IF pattern_matches(user_norm) \/ pattern_matches(qa_norm)
                 THEN Min(One, base1 + G.pattern_boost)
                 ELSE base1
      base3 == IF /\ Truthy(user_category) /\ Truthy(qa_category)
                  /\ user_category_conf # 0
                  /\ Lower(user_category) = Lower(qa_category)
                 THEN Min(One, base2
                            + (G.category_boost * user_category_conf) \div One)
                 ELSE base2
      base4 == IF exact /\ user_norm # "" /\ qa_norm # "" /\ user_norm = qa_norm
                 THEN Min(One, base3 + G.exact_bonus)
                 ELSE IF /\ prefix /\ user_norm # "" /\ qa_norm # ""
                         /\ StartsWith(Chars[qa_norm], Chars[user_norm])
                        THEN Min(One, base3 + G.prefix_bonus)
                        ELSE base3
  IN IF CosRaises(user_embedding, qa_embedding) THEN 0
     ELSE FinalPct(base4 * SCORE_SCALE)

\* calculate_score with exact=True, prefix=True and no weights argument, as
\* find_best_match calls it: it reads the module-level values
calculate_score(user_embedding, qa_embedding, user_norm, qa_norm, user_category, user_category_conf, qa_category) ==
  ScoreUnder(module_weights, user_embedding, qa_embedding, user_norm, qa_norm,
             user_category, user_category_conf, qa_category, TRUE, TRUE)

\* the score find_best_match computes for one entry of the list
EntryScore(user_question, qa) ==
  LET user_norm == normalize_ar(user_question)
      predicted == predict_category(Split(user_norm)) IN
    calculate_score(embed_vector(user_norm),
                    load_embedding(GetOr(qa, "embedding", None)),
                    user_norm, GetOr(qa, "question_norm", ""),
                    predicted.cat, predicted.conf,
                    GetOr(qa, "category", None))

\* an early return that looks at the question only
NoQuestion(user_question, l) == user_question = ""

\* "if not qas or not user_question: return None"
NothingToMatch(user_question, l) == l = <<>> \/ user_question = ""

\* the number of embed_vector calls find_best_match makes
EmbedCalls(user_question, l) ==
  IF NothingToMatch(user_question, l) THEN 0 ELSE 1

\* the positions of the list for which find_best_match calls calculate_score
ScoredEntries(user_question, l) ==
  IF NothingToMatch(user_question, l) THEN {}
  ELSE {i \in 1..Len(l) :
          /\ \A j \in 1..i : ~PickleRaises(GetOr(l[j], "embedding", None))
          /\ Usable(load_embedding(GetOr(l[i], "embedding", None)))}

\* find_best_match raises: load_embedding is called in the loop outside any
\* try, so the exception of pickle.loads leaves the function
MatchRaises(user_question, l) ==
  /\ ~NothingToMatch(user_question, l)
  /\ \E i \in 1..Len(l) : PickleRaises(GetOr(l[i], "embedding", None))

\* a comparison that lets every scored entry replace the best so far
AnyScore(score, best_score) == TRUE

\* "if score > best_score"
Better(score, best_score) == score > best_score

\* the loop of find_best_match from entry i on; best_qa_id is <<>> for None
RECURSIVE ScanQas(_, _, _, _)
ScanQas(i, user_question, l, best) ==
  IF i > Len(l) THEN best
  ELSE LET qa == l[i]
           emb == load_embedding(GetOr(qa, "embedding", None))
           score == EntryScore(user_question, qa) IN
         ScanQas(i + 1, user_question, l,
                 IF Usable(emb) /\ Better(score, best.best_score)
                   THEN [best_score |-> score, best_qa_id |-> Get(qa, "qa_id")]
                   ELSE best)

\* find_best_match(user_question, qas): <<>> for None, else <<MatchResult>>
find_best_match(user_question, l) ==
  IF NothingToMatch(user_question, l) THEN <<>>
  ELSE LET best == ScanQas(1, user_question, l,
                           [best_score |-> 0 - One, best_qa_id |-> <<>>]) IN
         IF best.best_qa_id # <<>>
           THEN <<[qa_id |-> best.best_qa_id[1], score |-> best.best_score]>>
           ELSE <<>>

\* what one call of find_best_match leaves behind
MatchOutcome(by, text, l) ==
  [NoLast EXCEPT !.op = "find_best_match", !.by = by,
                 !.status = IF MatchRaises(text, l) THEN "raised"
                            ELSE "returned",
                 !.ret = l, !.text = text,
                 !.best = IF MatchRaises(text, l) THEN <<>>
                          ELSE find_best_match(text, l),
                 !.embeds = EmbedCalls(text, l),
                 !.scored = ScoredEntries(text, l)]

\* a handler thread hands the list its get_qas call has just returned,
\* together with the text of the message, to find_best_match
FindBestMatch(t, text) ==
  /\ pc[t] = "idle"
  /\ last.op = "get_qas" /\ last.by = t /\ last.status = "returned"
  /\ last' = MatchOutcome(t, text, last.ret)
  /\ UNCHANGED <<db, clock, ttl, lock, last_loaded, qas, stop_event,
                 auto_thread, pc, now, joining, wpc, cur, hist>>
  /\ UNCHANGED <<module_weights, call>>

(* ----------------------------- admin flows ----------------------------- *)
\* Each handler below runs up to its call of qa_cache.invalidate(), which
\* Invalidate completes; db.variants is the set of qa ids that have rows in
\* table qa_variant (seed.py adds them, no admin flow does).

\* add_qna_category_cb: insert_qna commits the new row (or the UNIQUE index
\* on question_norm makes the INSERT raise), then the cache is invalidated
AddQnaCategoryCb(t, cat_name) ==
  /\ pc[t] = "idle"
  /\ db.ver < MaxVer
  /\ LET p == [NewPayload EXCEPT !.category = category_value(cat_name)]
         unique == UniqueNorm(db.rows, 0, p.question_norm) IN
       /\ db' = IF unique
                  THEN [db EXCEPT !.rows = Append(db.rows, MkRow(db.nextId, p)),
                                  !.nextId = db.nextId + 1,
                                  !.ver = db.ver + 1]
                  ELSE db
       /\ pc' = [pc EXCEPT ![t] = IF unique THEN "inv_wait" ELSE "idle"]
       /\ cur' = [cur EXCEPT ![t] = IF unique
                                      THEN [NoCur EXCEPT !.need = db.ver + 1]
                                      ELSE NoCur]
       /\ last' = [NoLast EXCEPT !.op = "add_qna_category_cb", !.by = t,
                                 !.status = IF unique THEN "returned"
                                                      ELSE "raised"]
  /\ UNCHANGED <<clock, ttl, lock, last_loaded, qas, stop_event, auto_thread,
                 now, joining, wpc, hist>>
  /\ UNCHANGED <<module_weights, call>>

\* update_qna_receive_value for the row of the id the admin gave: db.update_qna
\* runs the UPDATE, for field "question" also "DELETE FROM qa_variant WHERE
\* qa_id = ?", commits and returns "cur.rowcount > 0", the row count of the
\* statement executed last; the cache is invalidated "if ok"
UpdateQnaReceiveValue(t, id, field) ==
  /\ pc[t] = "idle"
  /\ db.ver < MaxVer
  /\ LET hit == {i \in 1..Len(db.rows) : db.rows[i].id = id}
         i == CHOOSE k \in hit : TRUE
         row == IF field = "question"
                  THEN [db.rows[i] EXCEPT
                          !.question = EditedPayload.question,
                          !.question_norm = normalize_ar(EditedPayload.question),
                          !.embedding = EditedPayload.embedding]
                  ELSE [db.rows[i] EXCEPT !.answer = EditedPayload.answer]
         rowcount == IF field = "question"
                       THEN (IF id \in db.variants THEN 1 ELSE 0)
                       ELSE Cardinality(hit)
         ok == rowcount > 0
     IN /\ hit # {} => /\ row # db.rows[i]
                       /\ UniqueNorm(db.rows, i, row.question_norm)
        /\ db' = IF hit = {}
                   THEN [db EXCEPT !.variants = IF field = "question"
                                                  THEN @ \ {id} ELSE @]
                   ELSE [db EXCEPT !.rows[i] = row, !.ver = db.ver + 1,
                                   !.variants = IF field = "question"
                                                  THEN @ \ {id} ELSE @]
        /\ pc' = [pc EXCEPT ![t] = IF ok THEN "inv_wait" ELSE "idle"]
        /\ cur' = [cur EXCEPT ![t] = IF ok
                                       THEN [NoCur EXCEPT !.need = db'.ver]
                                       ELSE NoCur]
        /\ last' = [NoLast EXCEPT !.op = "update_qna_receive_value",
                                  !.by = t, !.status = "returned",
                                  !.out = <<ok>>]
  /\ UNCHANGED <<clock, ttl, lock, last_loaded, qas, stop_event, auto_thread,
                 now, joining, wpc, hist>>
  /\ UNCHANGED <<module_weights, call>>

\* update_qna_category_cb: one UPDATE of the category column, committed;
\* the cache is invalidated "if ok"
UpdateQnaCategoryCb(t, id, cat_name) ==
  /\ pc[t] = "idle"
  /\ db.ver < MaxVer
  /\ LET hit == {i \in 1..Len(db.rows) : db.rows[i].id = id}
         i == CHOOSE k \in hit : TRUE
         ok == Cardinality(hit) > 0
     IN /\ hit # {} => db.rows[i].category # category_value(cat_name)
        /\ db' = IF hit = {} THEN db
                   ELSE [db EXCEPT !.rows[i].category = category_value(cat_name),
                                   !.ver = db.ver + 1]
        /\ pc' = [pc EXCEPT ![t] = IF ok THEN "inv_wait" ELSE "idle"]
        /\ cur' = [cur EXCEPT ![t] = IF ok
                                       THEN [NoCur EXCEPT !.need = db'.ver]
                                       ELSE NoCur]
        /\ last' = [NoLast EXCEPT !.op = "update_qna_category_cb", !.by = t,
                                  !.status = "returned", !.out = <<ok>>]
  /\ UNCHANGED <<clock, ttl, lock, last_loaded, qas, stop_event, auto_thread,
                 now, joining, wpc, hist>>
  /\ UNCHANGED <<module_weights, call>>

\* delete_qna_confirm_cb: on "del_yes" the DELETE is committed and the cache
\* is invalidated "if ok"; any other choice cancels
DeleteQnaConfirmCb(t, id, choice) ==
  /\ pc[t] = "idle"
  /\ db.ver < MaxVer
  /\ LET hit == {i \in 1..Len(db.rows) : db.rows[i].id = id}
         i == CHOOSE k \in hit : TRUE
         ok == choice = "del_yes" /\ Cardinality(hit) > 0
     IN /\ db' = IF ok THEN [db EXCEPT !.rows = RemoveAt(db.rows, i),
                                       !.ver = db.ver + 1]
                         ELSE db
        /\ pc' = [pc EXCEPT ![t] = IF ok THEN "inv_wait" ELSE "idle"]
        /\ cur' = [cur EXCEPT ![t] = IF ok
                                       THEN [NoCur EXCEPT !.need = db'.ver]
                                       ELSE NoCur]
        /\ last' = [NoLast EXCEPT !.op = "delete_qna_confirm_cb", !.by = t,
                                  !.status = "returned", !.out = <<ok>>]
  /\ UNCHANGED <<clock, ttl, lock, last_loaded, qas, stop_event, auto_thread,
                 now, joining, wpc, hist>>
  /\ UNCHANGED <<module_weights, call>>

(* --------------------------- message handler --------------------------- *)
\* bot.py defaults, in score points
MENTION_THRESHOLD == 70
NORMAL_THRESHOLD == 80
APOLOGY_MSG == "apology"

\* the attributes a QACache object has: the methods of the class and the
\* fields __init__ assigns
QACacheMethods ==
  {"db_path", "ttl", "_lock", "_last_loaded", "_qas", "_stop_event",
   "_auto_thread", "_load_from_db", "get_qas", "invalidate", "force_reload",
   "_auto_refresh_worker", "start_auto_refresh", "stop_auto_refresh"}

\* handle_text_message from the statement after "qas = cache.get_qas()" on,
\* for a message of the given text (already stripped) with the cache
\* registered in bot_data, as main() registers it; l is the list get_qas
\* returned, mentioned the value of is_mentioned, and m what the call
\* find_best_match(text, qas) of line 166 does (raises: it raises, best: the
\* value it returns). No text in use holds an @name, so remove_mentions
\* leaves the text as it is.
handle_text_message(text, mentioned, l, m) ==
  LET Silent == [status |-> "returned", reply |-> <<>>]
      Raised == [status |-> "raised", reply |-> <<>>]
      Fallback == IF mentioned
                    THEN [status |-> "returned", reply |-> <<APOLOGY_MSG>>]
                    ELSE Silent
      threshold == IF mentioned THEN MENTION_THRESHOLD ELSE NORMAL_THRESHOLD
      hits == {i \in 1..Len(l) : <<l[i].id>> = Get(m.best[1], "qa_id")}
      qa == l[CHOOSE i \in hits : \A j \in hits : i <= j]
  IN IF text = "" THEN Silent
     \* "embeddings = cache.get_embeddings()": AttributeError
     ELSE IF "get_embeddings" \notin QACacheMethods THEN Raised
     \* "if not qas or not embeddings"
     ELSE IF l = <<>> THEN Fallback
     ELSE IF m.raises THEN Raised
     ELSE IF m.best = <<>> THEN Fallback
     \* "row = db.get_qna_by_id()": TypeError, two arguments missing
     ELSE IF hits = {} THEN Raised
     ELSE IF m.best[1].score >= threshold * One /\ qa.answer # ""
            THEN [status |-> "returned", reply |-> <<qa.answer>>]
            ELSE Fallback

\* a handler thread whose get_qas call has just returned goes on with the
\* rest of handle_text_message
HandleTextMessage(t, text, mentioned) ==
  /\ pc[t] = "idle"
  /\ last.op = "get_qas" /\ last.by = t /\ last.status = "returned"
  /\ \E m \in {[raises |-> MatchRaises(text, last.ret),
                  best |-> find_best_match(text, last.ret)]} :
       \E r \in {handle_text_message(text, mentioned, last.ret, m)} :
         last' = [NoLast EXCEPT !.op = "handle_text_message", !.by = t,
                                !.status = r.status, !.ret = last.ret,
                                !.text = text,
                                !.args = <<[mentioned |-> mentioned]>>,
                                !.out = r.reply]
  /\ UNCHANGED <<db, clock, ttl, lock, last_loaded, qas, stop_event,
                 auto_thread, pc, now, joining, wpc, cur, hist>>
  /\ UNCHANGED <<module_weights, call>>

\* find_best_match applied to the list and the question a caller holds
FindBestMatchCall ==
  /\ call.fn = "find_best_match"
  /\ last' = MatchOutcome(None, call.user_question, call.qas)
  /\ UNCHANGED <<db, clock, ttl, lock, last_loaded, qas, stop_event,
                 auto_thread, pc, now, joining, wpc, cur, hist>>
  /\ UNCHANGED <<module_weights, call>>

\* the module-level values after a call with this weights argument
\* (<<>> for None, else <<dict>>)
GlobalsAfter(G, weights) ==
  IF weights = NoWeights THEN G ELSE OverrideWeights(G, weights[1])

\* the value one call of calculate_score returns, the module-level values
\* being G when it starts
ScoreOfCall(G, c, weights) ==
  ScoreUnder(GlobalsAfter(G, weights), c.user_embedding, c.qa_embedding,
             c.user_norm, c.qa_norm, c.user_category, c.user_category_conf,
             c.qa_category, c.exact, c.prefix)

\* calculate_score applied to the arguments a caller holds: it rebinds the
\* module-level names when the weights argument is truthy, then scores
CalculateScore ==
  /\ call.fn = "calculate_score"
  /\ module_weights' = GlobalsAfter(module_weights, call.weights)
  /\ last' = [NoLast EXCEPT !.op = "calculate_score", !.status = "returned",
                            !.args = <<call>>,
                            !.out = <<ScoreOfCall(module_weights, call,
                                                  call.weights)>>]
  /\ UNCHANGED <<db, clock, ttl, lock, last_loaded, qas, stop_event,
                 auto_thread, pc, now, joining, wpc, cur, hist>>
  /\ UNCHANGED call

\* a grid-search scoring function (make_scoring_fn) scores the same
\* arguments with the weights of one grid point
GridSearchScore ==
  /\ call.fn = "calculate_score"
  /\ \E w \in {GridPoint} :
       /\ module_weights' = GlobalsAfter(module_weights, <<w>>)
       /\ last' = [NoLast EXCEPT !.op = "scoring_fn", !.status = "returned",
                                 !.args = <<[call EXCEPT !.exact = TRUE,
                                                         !.prefix = TRUE,
                                                         !.weights = <<w>>]>>,
                                 !.out = <<ScoreOfCall(module_weights,
                                             [call EXCEPT !.exact = TRUE,
                                                          !.prefix = TRUE],
                                             <<w>>)>>]
  /\ UNCHANGED <<db, clock, ttl, lock, last_loaded, qas, stop_event,
                 auto_thread, pc, now, joining, wpc, cur, hist>>
  /\ UNCHANGED call

\* a caller applies normalize to the value it holds
Normalize ==
  /\ call.fn = "text"
  /\ last' = [NoLast EXCEPT !.op = "normalize",
                            !.status = normalize(call.x).status,
                            !.args = <<call.x>>,
                            !.out = normalize(call.x).value]
  /\ UNCHANGED <<db, clock, ttl, lock, last_loaded, qas, stop_event,
                 auto_thread, pc, now, joining, wpc, cur, hist>>
  /\ UNCHANGED <<module_weights, call>>

\* the string normalize has returned is normalized once more
NormalizeAgain ==
  /\ call.fn = "text"
  /\ last.op = "normalize" /\ last.status = "returned"
  /\ last' = [NoLast EXCEPT !.op = "normalize_again",
                            !.status = normalize(Str(last.out)).status,
                            !.args = <<Str(last.out)>>,
                            !.out = normalize(Str(last.out)).value]
  /\ UNCHANGED <<db, clock, ttl, lock, last_loaded, qas, stop_event,
                 auto_thread, pc, now, joining, wpc, cur, hist>>
  /\ UNCHANGED <<module_weights, call>>

\* a caller applies predict_category(text, is_normalized=True) to its text
PredictCategory ==
  /\ call.fn = "text" /\ call.x.str
  /\ last' = [NoLast EXCEPT !.op = "predict_category",
                            !.status = "returned",
                            !.args = <<call.x>>,
                            !.out = <<predict_category(call.x.items)>>]
  /\ UNCHANGED <<db, clock, ttl, lock, last_loaded, qas, stop_event,
                 auto_thread, pc, now, joining, wpc, cur, hist>>
  /\ UNCHANGED <<module_weights, call>>

(* --------------------------- specifications ---------------------------- *)
NextEnv ==
  \/ Tick
  \/ DbInsert
  \/ DbUpdate
  \/ DbDelete

NextCalls ==
  \/ \E t \in Threads : CallGetQas(t)
  \/ \E t \in Threads : GetQasEnter(t)
  \/ \E t \in Threads : GetQasLoadOk(t)
  \/ \E t \in Threads : GetQasLoadFail(t)
  \/ \E t \in Threads : CallInvalidate(t)
  \/ \E t \in Threads : Invalidate(t)
  \/ \E t \in Threads : CallForceReload(t)
  \/ \E t \in Threads : ForceReloadEnter(t)
  \/ \E t \in Threads : ForceReloadOk(t)
  \/ \E t \in Threads : ForceReloadFail(t)

NextWorker ==
  \/ \E w \in Workers : WorkerWait(w)
  \/ \E w \in Workers : WorkerTimeout(w)
  \/ \E w \in Workers : WorkerExit(w)
  \/ \E w \in Workers : WorkerAcquire(w)
  \/ \E w \in Workers : WorkerLoadOk(w)
  \/ \E w \in Workers : WorkerLoadFail(w)

NextLifecycle ==
  \/ \E t \in Threads : StartCheck(t)
  \/ \E t \in Threads : StartClear(t)
  \/ \E t \in Threads : StartSpawn(t)
  \/ \E t \in Threads : StopSet(t)
  \/ \E t \in Threads : StopRead(t)
  \/ \E t \in Threads : StopJoin(t)
  \/ \E t \in Threads : StopClear(t)

Next ==
  \/ NextEnv
  \/ NextCalls
  \/ NextWorker
  \/ NextLifecycle
  \/ \E t \in Threads, text \in Texts : FindBestMatch(t, text)

\* the whole cache
Spec == Init /\ [][Next]_vars

\* the cache in service: readers, invalidators and force-reloaders beside a
\* running auto-refresh thread, over a changing corpus source
NextTicks ==
  \/ \E w \in Workers : WorkerWait(w)
  \/ \E w \in Workers : WorkerTimeout(w)
  \/ \E w \in Workers : WorkerAcquire(w)
  \/ \E w \in Workers : WorkerLoadOk(w)
  \/ \E w \in Workers : WorkerLoadFail(w)

NextCache == NextEnv \/ NextCalls \/ NextTicks

SpecCache == InitRefreshing /\ [][NextCache]_vars

\* the cache under its scheduling, over a stored corpus that does not
\* change: a loader call that was started returns or raises, and a thread
\* blocked on the lock gets it when it is released again and again
SpecCacheLive ==
  /\ InitOver([rows |-> <<MkRow(1, NewPayload)>>, nextId |-> 2, ver |-> 0,
               variants |-> {}])
  /\ call = NoCall
  /\ auto_thread = FirstWorker
  /\ wpc = [w \in Workers |-> IF w = FirstWorker THEN "loop" ELSE "free"]
  /\ [][Tick \/ NextCalls \/ NextTicks]_vars
  /\ \A t \in Threads :
       /\ SF_vars(GetQasEnter(t))
       /\ SF_vars(Invalidate(t))
       /\ SF_vars(ForceReloadEnter(t))
       /\ WF_vars(GetQasLoadOk(t) \/ GetQasLoadFail(t))
       /\ WF_vars(ForceReloadOk(t) \/ ForceReloadFail(t))
  /\ \A w \in Workers : WF_vars(WorkerLoadOk(w) \/ WorkerLoadFail(w))

\* the life cycle of the auto-refresh thread: start and stop calls beside the
\* threads they create, over an unchanging corpus source
NextRefresh == NextWorker \/ NextLifecycle

SpecRefresh == Init /\ [][NextRefresh]_vars

\* the matcher in service: handler threads read the cache built over a stored
\* corpus of up to MaxRows rows and match message texts against what they get
MatchPayloads == Payloads \cup {UnembeddedPayload, TiedPayload}

\* the tables the UNIQUE index on question_norm allows
Corpora ==
  UNION {{[i \in 1..n |-> MkRow(i, f[i])] :
            f \in {g \in [1..n -> MatchPayloads] :
                     \A i, j \in 1..n : g[i] = g[j] => i = j}} :
         n \in 0..MaxRows}

InitMatch ==
  /\ \E c \in Corpora :
       InitOver([rows |-> c, nextId |-> Len(c) + 1, ver |-> 0,
                 variants |-> {}])
  /\ call = NoCall
  /\ auto_thread = None
  /\ wpc = [w \in Workers |-> "free"]

NextMatch ==
  \/ \E t \in Threads : CallGetQas(t)
  \/ \E t \in Threads : GetQasEnter(t)
  \/ \E t \in Threads : GetQasLoadOk(t)
  \/ \E t \in Threads : GetQasLoadFail(t)
  \/ \E t \in Threads, text \in Texts : FindBestMatch(t, text)
  \/ \E t \in Threads, text \in Texts, mentioned \in BOOLEAN :
       HandleTextMessage(t, text, mentioned)

SpecMatch == InitMatch /\ [][NextMatch]_vars

\* the admin flows beside readers: a stored corpus, some of whose rows were
\* seeded with variants, is changed through the handlers and read through
\* the cache
InitAdmin ==
  /\ \E c \in Corpora, v \in SUBSET (1..MaxRows) :
       /\ \A i \in 1..Len(c) : \E p \in Payloads : c[i] = MkRow(i, p)
       /\ v \subseteq 1..Len(c)
       /\ InitOver([rows |-> c, nextId |-> Len(c) + 1, ver |-> 0,
                    variants |-> v])
  /\ call = NoCall
  /\ auto_thread = None
  /\ wpc = [w \in Workers |-> "free"]

NextAdmin ==
  \/ \E t \in Threads, cat_name \in {"FEES", "LOCATION"} :
       AddQnaCategoryCb(t, cat_name)
  \/ \E t \in Threads, id \in 1..(MaxRows + 1),
         field \in {"question", "answer"} : UpdateQnaReceiveValue(t, id, field)
  \/ \E t \in Threads, id \in 1..(MaxRows + 1),
         cat_name \in {"FEES", "LOCATION"} : UpdateQnaCategoryCb(t, id, cat_name)
  \/ \E t \in Threads, id \in 1..(MaxRows + 1),
         choice \in {"del_yes", "del_no"} : DeleteQnaConfirmCb(t, id, choice)
  \/ \E t \in Threads : Invalidate(t)
  \/ \E t \in Threads : CallGetQas(t)
  \/ \E t \in Threads : GetQasEnter(t)
  \/ \E t \in Threads : GetQasLoadOk(t)
  \/ \E t \in Threads : GetQasLoadFail(t)

SpecAdmin == InitAdmin /\ [][NextAdmin]_vars

\* the text functions on their own: a text is a str whose items (words,
\* punctuation marks, extra blanks) stand one blank apart, or a value that
\* is not a str
InitText ==
  /\ InitCache
  /\ LET TextItems == {"rsum", "alrsum", "almkan", "dwrt", "kam", "fy", "dfe",
                       "ser", "?", " "}
         TextValues ==
           {NotAStr} \cup
           {Str(items) :
              items \in UNION {[1..n -> TextItems] : n \in 0..MaxTokens}}
     IN \E x \in TextValues : call = [fn |-> "text", x |-> x]
  /\ auto_thread = None
  /\ wpc = [w \in Workers |-> "free"]

NextText ==
  \/ Normalize
  \/ NormalizeAgain
  \/ PredictCategory

SpecText == InitText /\ [][NextText]_vars

\* the matcher's functions on their own. An entry of a list is the dict
\* _load_from_db builds (key "id") or the dict the docstring of
\* find_best_match describes (key "qa_id")
DocumentedDict(r) ==
  [qa_id |-> r.id, question_norm |-> r.question_norm,
   embedding |-> r.embedding, category |-> CategoryOrEmpty(r.category)]

\* arguments of calculate_score
ScoreCalls ==
  LET UserEmbeddings == {<<5, 0>>, <<0, 0>>, <<3, 4>>}
      QaEmbeddings == {<<5, 0>>, <<0 - 5, 0>>, <<0, 5>>, <<5, 0, 0>>}
      UserNorms == {"", "alrsum", "kam"}
      QaNorms == {"", "alrsum", "almkan"}
      UserCategories ==
        {[cat |-> None, conf |-> 0], [cat |-> "FEES", conf |-> 950],
         [cat |-> "LOCATION", conf |-> 600]}
      QaCategories == {None, "FEES", category_value("FEES")}
      WeightsArgs == {NoWeights, <<GridPoint>>, <<NegativeBoost>>}
  IN {[fn |-> "calculate_score", user_embedding |-> ue, qa_embedding |-> qe,
       user_norm |-> un, qa_norm |-> qn, user_category |-> uc.cat,
       user_category_conf |-> uc.conf, qa_category |-> qc,
       exact |-> ex, prefix |-> pr, weights |-> w] :
        ue \in UserEmbeddings, qe \in QaEmbeddings, un \in UserNorms,
        qn \in QaNorms, uc \in UserCategories, qc \in QaCategories,
        ex \in BOOLEAN, pr \in BOOLEAN, w \in WeightsArgs}

\* the calls of find_best_match are made with lists of up to MaxRows
\* entries, entry i carrying id i
InitMatcher ==
  /\ InitCache
  /\ ttl = 0
  /\ LET EntryPayloads == MatchPayloads \cup {ZeroLengthPayload}
         Entries(i) ==
           {QaDict(MkRow(i, p)) : p \in EntryPayloads}
             \cup {DocumentedDict(MkRow(i, p)) : p \in EntryPayloads}
         QaLists ==
           UNION {{l \in [1..n -> UNION {Entries(i) : i \in 1..n}] :
                     \A i \in 1..n : l[i] \in Entries(i)} : n \in 0..MaxRows}
         MatchCalls ==
           {[fn |-> "find_best_match", qas |-> l, user_question |-> q] :
              l \in QaLists, q \in Texts}
     IN call \in MatchCalls \cup ScoreCalls
  /\ auto_thread = None
  /\ wpc = [w \in Workers |-> "free"]

NextMatcher ==
  \/ FindBestMatchCall
  \/ CalculateScore
  \/ GridSearchScore

SpecMatcher == InitMatcher /\ [][NextMatcher]_vars

\* find_best_match over lists that hold malformed entries
InitMalformed ==
  LET Entries(i) ==
        {QaDict(MkRow(i, p)) : p \in Payloads \cup MalformedPayloads}
          \cup {DocumentedDict(MkRow(i, p)) :
                  p \in Payloads \cup MalformedPayloads}
      Lists ==
        UNION {{l \in [1..n -> UNION {Entries(i) : i \in 1..n}] :
                  \A i \in 1..n : l[i] \in Entries(i)} : n \in 0..MaxRows}
  IN /\ InitCache
     /\ ttl = 0
     /\ \E l \in Lists, q \in Texts :
          call = [fn |-> "find_best_match", qas |-> l, user_question |-> q]
     /\ auto_thread = None
     /\ wpc = [w \in Workers |-> "free"]

SpecMalformed == InitMalformed /\ [][FindBestMatchCall]_vars

(* ------------------------------ claims --------------------------------- *)
\* a reload is in flight: only the three reload paths keep the lock
\* from one step to the next
LoadInFlight == lock # None

\* C1 as stated: once some load has succeeded with a non-empty corpus, a
\* get_qas whose reload attempt fails never returns an empty list.
C1_NeverEmptyAfterNonEmptyLoad ==
  (last.op = "get_qas" /\ last.load = "fail" /\ hist.hadNonEmpty)
    => last.ret # <<>>

\* C1 amended: a get_qas whose reload attempt fails returns normally, and the
\* list it returns is exactly the corpus of the most recent successful load
\* (the initial empty list when no load has succeeded yet).
C1_FailedReloadReturnsLastLoaded ==
  (last.op = "get_qas" /\ last.load = "fail")
    => (last.status = "returned" /\ last.ret = hist.lastGood)

C1_Witness ==
  /\ last.op = "get_qas"
  /\ last.load = "fail"
  /\ hist.hadNonEmpty
  /\ last.ret # <<>>

C3_NoLoaderCallWithinTtl ==
  \A t \in Threads :
    pc[t] = "get_load"
      => ~(hist.sinceLoad /\ (now[t] - last_loaded) <= ttl)

\* C3 amended: the same when the loaded corpus is non-empty.
C3_NoLoaderCallWithinTtlNonEmpty ==
  \A t \in Threads :
    pc[t] = "get_load"
      => ~(hist.sinceLoad /\ hist.lastGood # <<>>
             /\ (now[t] - last_loaded) <= ttl)

C3_Witness ==
  /\ last.op = "get_qas"
  /\ last.calls = 0
  /\ hist.sinceLoad
  /\ last.ret # <<>>
  /\ (last.at - last_loaded) <= ttl

\* C4: a step in which a reload fails (in get_qas, force_reload or an
\* auto-refresh tick) leaves snapshot and timestamp as they were, so the
\* cache is stale after it exactly if it was before, and leaves the lock free.
C4_FailedLoadChangesNothing ==
  [][last'.load = "fail"
       => /\ qas' = qas
          /\ last_loaded' = last_loaded
          /\ IsStale(qas', clock', last_loaded', ttl')
               = IsStale(qas, clock, last_loaded, ttl)
          /\ lock' = None]_vars

C4_Witness ==
  /\ last.load = "fail"
  /\ last.op = "auto_refresh"
  /\ qas # <<>>
  /\ last_loaded > 0

\* C5: at most one auto-refresh thread is alive at any time.
C5_AtMostOneWorkerAlive == Cardinality(AliveWorkers) <= 1

C7_InvalidateNeverWaitsForLoad ==
  \A t \in Threads : pc[t] = "inv_wait" => ~LoadInFlight

\* C8 as stated: every force_reload calls the loader exactly once; a
\* successful one leaves the loaded corpus as the snapshot, stamped with the
\* current time; and a get_qas that follows it within the ttl (no other load,
\* no invalidate in between) returns that corpus without calling the loader.
C8_ForceReloadLoadsOnceAndFreshens ==
  [][/\ last'.op = "force_reload"
          => /\ last'.calls = 1
             /\ last'.load = "ok"
                  => (qas' = LoadFromDb(db.rows) /\ last_loaded' = clock)
     /\ (last'.op = "get_qas" /\ hist.lastBy = "force_reload"
           /\ hist.sinceLoad /\ (last'.at - last_loaded) <= ttl)
          => (last'.ret = hist.lastGood /\ last'.calls = 0)]_vars

\* C8 amended: the same, the last part only when the loaded corpus is
\* non-empty.
C8_ForceReloadLoadsOnceAndFreshensNonEmpty ==
  [][/\ last'.op = "force_reload"
          => /\ last'.calls = 1
             /\ last'.load = "ok"
                  => (qas' = LoadFromDb(db.rows) /\ last_loaded' = clock)
     /\ (last'.op = "get_qas" /\ hist.lastBy = "force_reload"
           /\ hist.sinceLoad /\ hist.lastGood # <<>>
           /\ (last'.at - last_loaded) <= ttl)
          => (last'.ret = hist.lastGood /\ last'.calls = 0)]_vars

C8_Witness ==
  /\ last.op = "get_qas"
  /\ last.calls = 0
  /\ hist.lastBy = "force_reload"
  /\ hist.sinceLoad
  /\ last.ret # <<>>
  /\ last.ret = LoadFromDb(db.rows)

\* C9: whatever the loader does, get_qas returns normally with a list and
\* force_reload returns normally, and the auto-refresh thread is still alive
\* after a tick whose reload failed.
C9_LoaderFailureNotSurfaced ==
  /\ last.op \in {"get_qas", "force_reload"} => last.status = "returned"
  /\ (last.op = "auto_refresh" /\ last.load = "fail")
       => (last.status = "returned" /\ IsAlive(last.by))

C9_Witness ==
  /\ last.op = "auto_refresh"
  /\ last.load = "fail"
  /\ wpc[last.by] = "loop"

\* the entries of a list that have a usable embedding
UsableEntries(l) ==
  {i \in 1..Len(l) : Usable(load_embedding(GetOr(l[i], "embedding", None)))}

\* C10: on a list returned by get_qas that has at least one entry with a
\* usable embedding, find_best_match with a non-empty query returns a match
\* whose qa_id is the id of a usable entry of maximum score and whose score is
\* that maximum.
C10_ReturnsMaxScoringEntry ==
  (last.op = "find_best_match" /\ last.text # ""
     /\ UsableEntries(last.ret) # {}) =>
    /\ last.best # <<>>
    /\ \E i \in UsableEntries(last.ret) :
         /\ last.best[1].qa_id = last.ret[i].id
         /\ last.best[1].score = EntryScore(last.text, last.ret[i])
         /\ \A j \in UsableEntries(last.ret) :
              EntryScore(last.text, last.ret[j])
                <= EntryScore(last.text, last.ret[i])

\* the usable entries of a list that no usable entry outscores
TopEntries(text, l) ==
  {i \in UsableEntries(l) :
     \A j \in UsableEntries(l) :
       EntryScore(text, l[j]) <= EntryScore(text, l[i])}

\* the orderings of a list
Reorderings(l) ==
  {[i \in 1..Len(l) |-> l[p[i]]] :
     p \in {q \in [1..Len(l) -> 1..Len(l)] :
              \A i, j \in 1..Len(l) : q[i] = q[j] => i = j}}

\* the vector stored with an entry: none when the key is absent or NULL
StoredVector(qa) ==
  IF "embedding" \notin DOMAIN qa \/ qa.embedding = None THEN <<>>
  ELSE Blobs[qa.embedding]

\* C11: on an empty list find_best_match returns none for every question,
\* and it does not call the embedding function.
C11_EmptyCorpusNoneWithoutEmbedding ==
  (last.op = "find_best_match" /\ last.ret = <<>>) =>
    /\ last.best = <<>>
    /\ last.embeds = 0

C11_Witness ==
  /\ last.op = "find_best_match"
  /\ call.fn = "find_best_match"
  /\ last.ret = <<>>
  /\ last.text # ""
  /\ last.best = <<>>

\* C12: when two or more usable entries of the snapshot get_qas returned
\* share the maximum score, find_best_match returns the id of the first of
\* them in snapshot order.
C12_FirstOfTiedWins ==
  (last.op = "find_best_match" /\ last.text # ""
     /\ Cardinality(TopEntries(last.text, last.ret)) >= 2) =>
    /\ last.best # <<>>
    /\ \E i \in TopEntries(last.text, last.ret) :
         /\ last.best[1].qa_id = last.ret[i].id
         /\ \A j \in TopEntries(last.text, last.ret) : i <= j

\* C13: when exactly one entry attains the maximum score, find_best_match
\* returns the same qa_id and score for every permutation of the list.
C13_PermutationInvariant ==
  (last.op = "find_best_match"
     /\ Cardinality(TopEntries(last.text, last.ret)) = 1) =>
    \A l \in Reorderings(last.ret) :
      find_best_match(last.text, l) = last.best

C13_Witness ==
  /\ last.op = "find_best_match"
  /\ Cardinality(UsableEntries(last.ret)) >= 2
  /\ TopEntries(last.text, last.ret) = {Len(last.ret)}
  /\ last.best # <<>>
  /\ last.best[1].qa_id = Len(last.ret)

\* C14: calculate_score returns a value in [0, 100] for all embeddings,
\* normalized strings, category inputs and weights, and so the score of a
\* MatchResult that find_best_match returns is in [0, 100].
C14_ScoreWithinRange ==
  /\ last.op \in {"calculate_score", "scoring_fn"} =>
       (last.out[1] >= 0 /\ last.out[1] <= 100 * One)
  /\ (last.op = "find_best_match" /\ last.best # <<>>) =>
       (last.best[1].score >= 0 /\ last.best[1].score <= 100 * One)

C14_Witness ==
  /\ last.op = "calculate_score"
  /\ last.args[1].weights = <<NegativeBoost>>
  /\ last.args[1].user_norm = "alrsum"
  /\ Len(last.args[1].user_embedding) = Len(last.args[1].qa_embedding)
  /\ last.out[1] = 0

\* C15: with the default weights, an entry whose non-empty question_norm is
\* the query's normalized text and whose embedding is the query's embedding
\* scores at least 99, and on a snapshot holding only that entry
\* find_best_match returns it with a score of at least 99.
C15_IdenticalEntryScoresAtLeast99 ==
  (last.op = "find_best_match" /\ Len(last.ret) = 1
     /\ module_weights = DefaultWeights
     /\ normalize_ar(last.text) # ""
     /\ normalize_ar(last.text) = last.ret[1].question_norm
     /\ embed_vector(normalize_ar(last.text)) = StoredVector(last.ret[1])) =>
    /\ EntryScore(last.text, last.ret[1]) >= 99 * One
    /\ last.best # <<>>
    /\ last.best[1].qa_id = last.ret[1].id
    /\ last.best[1].score >= 99 * One

\* C16: the score a calculate_score call without a weights override returns
\* depends on its arguments only: it is the score under the default
\* weights, whatever calls with an override were made before.
C16_ScoreDependsOnArgumentsOnly ==
  (last.op = "calculate_score" /\ last.args[1].weights = NoWeights) =>
    last.out[1] = ScoreOfCall(DefaultWeights, last.args[1], NoWeights)

\* C20: for a non-empty question, find_best_match returns normally, scores
\* exactly the entries whose stored embedding is a non-empty vector, and a
\* match it returns is one of these.
C20_SkipsEmptyEmbeddings ==
  (last.op = "find_best_match" /\ last.text # "" /\ last.ret # <<>>) =>
    /\ last.status = "returned"
    /\ last.scored =
         {i \in 1..Len(last.ret) : Len(StoredVector(last.ret[i])) > 0}
    /\ last.best # <<>> =>
         \E i \in last.scored :
           /\ Len(StoredVector(last.ret[i])) > 0
           /\ "qa_id" \in DOMAIN last.ret[i]
           /\ last.ret[i].qa_id = last.best[1].qa_id

C20_Witness ==
  /\ last.op = "find_best_match"
  /\ last.best # <<>>
  /\ \E i \in 1..Len(last.ret) :
       /\ last.ret[i].embedding = "blobEmpty"
       /\ i \notin last.scored

\* the number of keyword patterns of the best category that a text matches
BestCount(items) ==
  LET counts == {CategoryScore(CategoryOrder[i], items) :
                   i \in 1..Len(CategoryOrder)} IN
    CHOOSE n \in counts : \A m \in counts : m <= n

\* C17: normalize is idempotent: normalizing the string normalize returned
\* gives that string again.
C17_NormalizeIdempotent ==
  last.op = "normalize_again" =>
    /\ last.status = "returned"
    /\ last.out = last.args[1].items

\* C18: normalize returns a string and never raises, whatever the input;
\* for an empty, a whitespace-only and a non-string input the string it
\* returns is empty.
C18_NormalizeTotal ==
  last.op = "normalize" =>
    /\ last.status = "returned"
    /\ \A i \in 1..Len(last.out) : last.out[i] \in Words
    /\ (~last.args[1].str
          \/ \A i \in 1..Len(last.args[1].items) :
               last.args[1].items[i] \in Whitespace)
         => last.out = <<>>

C18_Witness ==
  /\ last.op = "normalize"
  /\ ~call.x.str
  /\ last.out = <<>>

\* C19: predict_category returns (none, 0.0) exactly when no keyword pattern
\* of any category matches the text; otherwise its confidence is
\* min(0.95, 0.5 + 0.1 * best_count), at least 0.6, never above 0.95 and not
\* below the confidence that a smaller best_count gives.
C19_ConfidenceCappedAndMonotone ==
  last.op = "predict_category" =>
    LET n == BestCount(last.args[1].items)
        r == last.out[1] IN
      /\ (r.cat = None /\ r.conf = 0) <=> n = 0
      /\ n > 0 =>
           /\ r.cat # None
           /\ r.conf = IF 500 + 100 * n < 950 THEN 500 + 100 * n ELSE 950
           /\ r.conf >= 600 /\ r.conf <= 950
           /\ \A m \in 1..n : Confidence(m) <= r.conf

C19_Witness ==
  /\ last.op = "predict_category"
  /\ BestCount(call.x.items) >= 5
  /\ last.out[1].conf = 950

\* an entry whose embedding unpickles to nothing or to a vector of the
\* dimension of the query embedding
WellFormed(qa) ==
  /\ ~PickleRaises(GetOr(qa, "embedding", None))
  /\ Len(StoredVector(qa)) \in {0, Len(embed_vector("alrsum"))}

\* C21: a malformed entry is skipped on its own: find_best_match does not
\* fail, and its result is the result over the well-formed entries of the
\* list (so a malformed entry is never the match).
C21_MalformedEntrySkipped ==
  (last.op = "find_best_match" /\ last.text # "") =>
    /\ last.status = "returned"
    /\ last.best =
         find_best_match(last.text, SelectSeq(last.ret, WellFormed))

\* C29: predict_category returns a category of the highest pattern count,
\* and among several of that (non-zero) count the one that comes first in
\* the order REGISTRATION, ATTENDANCE, DELIVERIES, FEES, LOCATION, GENERAL.
C29_FirstOfTiedCategories ==
  last.op = "predict_category" =>
    LET items == last.args[1].items
        order == <<"REGISTRATION", "ATTENDANCE", "DELIVERIES", "FEES",
                   "LOCATION", "GENERAL">>
        top == {i \in 1..Len(order) :
                  CategoryScore(order[i], items) = BestCount(items)} IN
      BestCount(items) > 0 =>
        \E i \in top : /\ last.out[1].cat = order[i]
                        /\ \A j \in top : i <= j

C29_Witness ==
  /\ last.op = "predict_category"
  /\ CategoryScore("FEES", call.x.items) = 1
  /\ CategoryScore("LOCATION", call.x.items) = 1
  /\ last.out[1].cat = "FEES"

\* C30: the count predict_category uses for a category is the number of
\* distinct keyword patterns of that category that match the text: no
\* keyword contributes more than one point to the same category.
C30_CountsDistinctPatterns ==
  last.op = "predict_category" =>
    \A i \in 1..Len(CategoryOrder) :
      LET patterns == CATEGORY_KEYWORDS[CategoryOrder[i]] IN
        CategoryScore(CategoryOrder[i], last.args[1].items)
          = Cardinality({patterns[k] : k \in
                           {n \in 1..Len(patterns) :
                              PatternFound(patterns[n], last.args[1].items)}})
\* the threads that are inside a loader call
Loading ==
  {t \in Threads : pc[t] \in {"get_load", "fr_load"}}
    \cup {w \in Workers : wpc[w] = "load"}

\* C23: at most one load is in flight and it is the lock holder's; while a
\* reload that has made its staleness check is under way, the snapshot and
\* the timestamp are changed by nothing but that reload's own completion
C23_OneLoadInFlight ==
  [][/\ Cardinality(Loading) <= 1
     /\ Cardinality(Loading') <= 1
     /\ \A x \in Loading' : lock' = x
     /\ (Loading # {} /\ (qas' # qas \/ last_loaded' # last_loaded)) =>
          /\ Loading' = {}
          /\ lock' = None]_vars

\* a load in flight while another reader and a refresh tick wait for the lock
C23_Witness ==
  /\ pc["t1"] = "get_load"
  /\ pc["t2"] = "fr_wait"
  /\ wpc[FirstWorker] = "acquire"

\* C25: a get_qas whose reload failed leaves the snapshot and the timestamp
\* as they were, stale at every later clock reading; a get_qas that takes the
\* lock over a stale or empty cache starts a load, and the get_qas whose load
\* succeeds publishes and returns the corpus the source holds then
C25_RetryUntilLoaded ==
  [][/\ (last'.op = "get_qas" /\ last'.load = "fail") =>
          /\ qas' = qas
          /\ last_loaded' = last_loaded
          /\ \A c \in clock..(MaxClock + 1) :
                IsStale(qas', c, last_loaded', ttl)
     /\ \A t \in Threads :
          (/\ pc[t] = "get_wait"
           /\ pc'[t] # "get_wait"
           /\ IsStale(qas, clock, last_loaded, ttl)) =>
             /\ pc'[t] = "get_load"
             /\ cur'[t].calls = 1
     /\ (last'.op = "get_qas" /\ last'.load = "ok") =>
          /\ last'.ret = LoadFromDb(db.rows)
          /\ qas' = last'.ret]_vars

\* a get_qas reload failed over a loaded snapshot while the source holds a
\* newer corpus, and the next reader is already at the lock
C25_Witness ==
  /\ last.op = "get_qas"
  /\ last.load = "fail"
  /\ qas # <<>>
  /\ db.ver > hist.lastVer
  /\ \E t \in Threads : pc[t] = "get_wait"

C28_StoredCategoryAgreesWithPredicted ==
  (/\ last.op = "calculate_score"
   /\ last.args[1].user_category \in DOMAIN Category
   /\ last.args[1].user_category_conf > 0
   /\ last.args[1].qa_category
        = category_value(last.args[1].user_category)) =>
    LET c == last.args[1]
        agreeing == [c EXCEPT !.qa_category = c.user_category]
    IN /\ Lower(c.user_category) = Lower(c.qa_category)
       /\ last.out[1]
            = ScoreOfCall(GlobalsAfter(module_weights, c.weights), agreeing,
                          c.weights)

\* C26: a worker that was the cache's running refresh thread when
\* stop_auto_refresh set the stop flag leaves no later wait for a new tick:
\* it starts no reload after that, whatever start and stop calls follow.
C26_StoppedWorkerStartsNoReload ==
  [][\A w \in hist.stopped :
       ~(wpc[w] = "wait" /\ wpc'[w] = "acquire")]_vars

\* C27: every step of an admin handler that commits a change of the corpus
\* leaves that handler on its way into invalidate(), which it calls before it
\* finishes.
C27_CommitFollowedByInvalidate ==
  [][db'.ver > db.ver => pc'[last'.by] = "inv_wait"]_vars

====
